---------------------------- MODULE Spec2Model ----------------------------
(***************************************************************************)
(* State-machine model of the ADS1015 pH/ORP acquisition core             *)
(* (APAPHX_ADS1015.cpp, version 1.1, with its header).                     *)
(*                                                                         *)
(* Numbers.  The C++ `float` values are modelled as fixed-point integers: *)
(*   - a stored sample (volts) is held in microvolts;                      *)
(*   - millivolt values, pH/ORP values, calibration fields and            *)
(*     temperatures are held in units of 1/Scale (1e-4).                   *)
(* Products and quotients are computed exactly and rounded to the nearest *)
(* unit, so the model follows the real-number formula of the source to    *)
(* 1e-4; float rounding below that is not modelled.                        *)
(***************************************************************************)
EXTENDS Integers, Sequences, FiniteSets, TLC

(***************************************************************************)
(* Bounds of the model                                                     *)
(***************************************************************************)
\* largest sample count a request asks for
MaxSamples == 2
\* total number of milliseconds the clock advances in one behaviour
MaxTicks == 2
\* number of passes of the do-while loop of calibratePHXReading
MaxAttempts == 2

(***************************************************************************)
(* Program constants                                                       *)
(***************************************************************************)
MAX_AVG_BUFFER == 10
\* delay_ms of calConfig and the argument of delay() in calibratePHXReading
CalDelayMs == 10
CalSettleMs == 500
ADS1015_REG_SET_GAIN0_6_144V == 0
ADS1015_REG_SET_GAIN1_4_096V == 512
ADS1015_REG_SET_GAIN2_2_048V == 1024
ADS1015_REG_SET_GAIN4_1_024V == 1536
ADS1015_REG_SET_GAIN8_0_512V == 2048
ADS1015_REG_SET_GAIN16_0_256V == 2560

\* fixed-point unit of the value domain: 1e-4
Scale == 10^4
\* modulus of the millisecond counter.  millis() is an unsigned long that
\* wraps at 2^32; TLC's integers are 32-bit signed, so the counter is kept
\* at 30 bits: elapsed time is (now - last) mod ClockMod and a negative int
\* compared with it converts to ClockMod + value, as in the source.
ClockMod == 2^30

(***************************************************************************)
(* Fixed-point arithmetic                                                  *)
(***************************************************************************)
Abs(x) == IF x < 0 THEN -x ELSE x

Sgn(x) == IF x < 0 THEN -1 ELSE IF x > 0 THEN 1 ELSE 0

\* one doubling step: from h = <<q, r>> for a*(b \div 2) to the pair for a*b
MulDivStep(h, a, b, c) ==
    <<2 * h[1] + (IF b % 2 = 1 THEN a \div c ELSE 0)
        + ((2 * h[2] + (IF b % 2 = 1 THEN a % c ELSE 0)) \div c),
      (2 * h[2] + (IF b % 2 = 1 THEN a % c ELSE 0)) % c>>

\* <<q, r>> with a*b = q*c + r and 0 <= r < c, for a, b >= 0 and c > 0,
\* computed by doubling so that no intermediate exceeds 3*c.  The pair of
\* the half is bound once, as the element of a singleton.
RECURSIVE MulDivPair(_, _, _)
MulDivPair(a, b, c) ==
    IF b = 0 THEN <<0, 0>>
    ELSE CHOOSE p \in {MulDivStep(h, a, b, c) :
                         h \in {MulDivPair(a, b \div 2, c)}} : TRUE

\* a*b/c rounded to the nearest integer (c # 0), for operands in hand
MulDivRound(a, b, c) ==
    LET p == MulDivPair(Abs(a), Abs(b), Abs(c))
        m == p[1] + (IF 2 * p[2] >= Abs(c) THEN 1 ELSE 0)
    IN  Sgn(a) * Sgn(b) * Sgn(c) * m

\* a*b/c rounded to the nearest integer (c # 0); each operand is evaluated
\* once, as the element of a singleton
MulDiv(a, b, c) ==
    CHOOSE m \in {MulDivRound(x, y, z) : x \in {a}, y \in {b}, z \in {c}} :
        TRUE

\* a/b rounded to the nearest integer (b # 0)
DivRound(a, b) == MulDiv(a, 1, b)

\* faulty variant of constrain: the value is passed through unclamped
constrainNone(x, lo, hi) == x

\* Arduino constrain(x, lo, hi)
constrain(x, lo, hi) == IF x < lo THEN lo ELSE IF x > hi THEN hi ELSE x


(***************************************************************************)
(* Pure helpers of the driver                                              *)
(***************************************************************************)
\* faulty variant of voltageRange: an unknown code selects the narrowest range
voltageRangeNarrowDefault(g) ==
    CASE g = ADS1015_REG_SET_GAIN0_6_144V  -> 6144000
      [] g = ADS1015_REG_SET_GAIN1_4_096V  -> 4096000
      [] g = ADS1015_REG_SET_GAIN2_2_048V  -> 2048000
      [] g = ADS1015_REG_SET_GAIN4_1_024V  -> 1024000
      [] g = ADS1015_REG_SET_GAIN8_0_512V  -> 512000
      [] OTHER -> 256000

\* full-scale range in microvolts selected by the gain code
\* (switch in updateReading)
voltageRange(g) ==
    CASE g = ADS1015_REG_SET_GAIN0_6_144V  -> 6144000
      [] g = ADS1015_REG_SET_GAIN1_4_096V  -> 4096000
      [] g = ADS1015_REG_SET_GAIN2_2_048V  -> 2048000
      [] g = ADS1015_REG_SET_GAIN4_1_024V  -> 1024000
      [] g = ADS1015_REG_SET_GAIN8_0_512V  -> 512000
      [] g = ADS1015_REG_SET_GAIN16_0_256V -> 256000
      [] OTHER -> 6144000

\* faulty variant of readADC_SingleEnded: channel 4 is let through
readADC_SingleEndedLoose(channel, reg) ==
    IF channel > 4 THEN 0 ELSE reg \div 16

\* readADC_SingleEnded: the value returned for a channel, given the 16-bit
\* content of the conversion register (uint16_t >> 4, returned as int16_t)
readADC_SingleEnded(channel, reg) ==
    IF channel > 3 THEN 0 ELSE reg \div 16

\* number of register transfers readADC_SingleEnded issues on the bus
\* (one writeRegister, one readRegister)
readADC_BusOps(channel) == IF channel > 3 THEN 0 ELSE 2

\* (rawReading * voltageRange) / 2048.0f, in microvolts
SampleVolts(rawReading, g) == MulDiv(voltageRange(g), rawReading, 2048)

\* faulty variant of isValidTemperature: the upper bound is missing
isValidTemperatureNoCeiling(temperature) == temperature >= 0

\* faulty variant of isValidTemperature: the lower bound is missing
isValidTemperatureNoFloor(temperature) == temperature <= 50 * Scale

\* temperature >= 0.0f && temperature <= 50.0f
isValidTemperature(temperature) ==
    temperature >= 0 /\ temperature <= 50 * Scale

\* faulty variant of applyTemperatureCompensation: the reference is 20
\* degrees C
applyTemperatureCompensationRef20(pH_raw, current_temp) ==
    MulDiv(pH_raw - 7 * Scale, 2731500 + current_temp, 2731500 + 20 * Scale)
        + 7 * Scale

\* faulty variant of applyTemperatureCompensation: the temperatures are
\* taken in degrees Celsius, not in kelvin
applyTemperatureCompensationCelsius(pH_raw, current_temp) ==
    MulDiv(pH_raw - 7 * Scale, current_temp, 25 * Scale) + 7 * Scale

\* Pasco 2001: ((pH_raw - 7) * (273.15 + T)) / (273.15 + 25) + 7
applyTemperatureCompensation(pH_raw, current_temp) ==
    MulDiv(pH_raw - 7 * Scale, 2731500 + current_temp, 2731500 + 25 * Scale)
        + 7 * Scale

RECURSIVE SumSeq(_)
SumSeq(s) == IF s = <<>> THEN 0 ELSE Head(s) + SumSeq(Tail(s))

\* faulty variant of AverageMilliVolts: the average is left in volts
AverageVolts(samples) == DivRound(SumSeq(samples), 100 * Len(samples))

\* (raw_sum / validSamples) * 1000.0f: the averaged voltage in mV (1e-4 units)
\* from samples held in microvolts
AverageMilliVolts(samples) == DivRound(SumSeq(samples) * 10, Len(samples))

\* faulty variant of TwoPoint: the voltage is held inside the calibrated span
TwoPointClamped(cal, mV) ==
    cal.ref1_value
      + MulDiv(cal.ref2_value - cal.ref1_value,
               constrain(mV, IF cal.ref1_mV < cal.ref2_mV
                             THEN cal.ref1_mV ELSE cal.ref2_mV,
                         IF cal.ref1_mV < cal.ref2_mV
                         THEN cal.ref2_mV ELSE cal.ref1_mV) - cal.ref1_mV,
               cal.ref2_mV - cal.ref1_mV)

\* two-point calibration formula of the PROCESSING branch
TwoPoint(cal, mV) ==
    cal.ref1_value
      + MulDiv(cal.ref2_value - cal.ref1_value, mV - cal.ref1_mV,
               cal.ref2_mV - cal.ref1_mV)

\* abs(cal->ref2_mV - cal->ref1_mV) > 0.001f
IsCalibrated(cal) == 1000 * Abs(cal.ref2_mV - cal.ref1_mV) > Scale

(***************************************************************************)
(* Input sets                                                              *)
(***************************************************************************)
\* marks a buffer entry whose value is indeterminate (new float[n] does not
\* initialise its elements); stored samples are never negative
Indeterminate == -1

\* PHXConfig values passed to startReading.  delay_ms is a signed int (a
\* negative, a zero and a positive delay); avg_buffer is a uint8_t (below,
\* inside and above 1..MAX_AVG_BUFFER); samples runs from 0 to MaxSamples.
Cfg(t, n, d, a) == [type |-> t, samples |-> n, delay_ms |-> d, avg_buffer |-> a]

Configs ==
    { Cfg("ph", MaxSamples, 0, 3),
      Cfg("rx", MaxSamples, 2, 0),
      Cfg("ph", 1, 0, 3),
      Cfg("ph", 0, 0, 3),
      Cfg("rx", 1, -1, MAX_AVG_BUFFER + 1) }

\* 16-bit contents of the conversion register: 100 counts
RegValues == {100 * 16}

\* the same while calibratePHXReading runs, the probe in a buffer solution:
\* 100 and 112 counts
CalRegValues == {100 * 16, 112 * 16}

\* gain codes passed to setGain
Gains == {ADS1015_REG_SET_GAIN0_6_144V, ADS1015_REG_SET_GAIN1_4_096V}

\* temperatures passed to setTemperature: -5, 30 and 60 degrees C
Temperatures == {-5 * Scale, 30 * Scale, 60 * Scale}

\* the member initialisers ph_cal = {0, 0, 4, 7} and orp_cal = {0, 0, 475, 650}
DefaultPhCal ==
    [ref1_mV |-> 0, ref2_mV |-> 0, ref1_value |-> 4 * Scale,
     ref2_value |-> 7 * Scale]

DefaultOrpCal ==
    [ref1_mV |-> 0, ref2_mV |-> 0, ref1_value |-> 475 * Scale,
     ref2_value |-> 650 * Scale]

\* calibration records: (0 mV -> 4.0, 100 mV -> 7.0) and
\* (0 mV -> 475, 100 mV -> 650)
PhRecord ==
    [ref1_mV |-> 0, ref2_mV |-> 100 * Scale, ref1_value |-> 4 * Scale,
     ref2_value |-> 7 * Scale]

OrpRecord ==
    [ref1_mV |-> 0, ref2_mV |-> 100 * Scale, ref1_value |-> 475 * Scale,
     ref2_value |-> 650 * Scale]

\* (type, record) arguments passed to calibratePHX
CalCalls == {<<"ph", PhRecord>>, <<"rx", OrpRecord>>, <<"xx", PhRecord>>}

\* value of millis() when the first call is made: one millisecond before the
\* counter wraps (the first tick takes it to 0)
StartClocks == {ClockMod - 1}

\* updates counts to MaxSamples + 1 and stays at UpdatesCap when no cycle has
\* been started, after a cancel, and beyond
UpdatesCap == MaxSamples + 2

NullPtr == [alloc |-> FALSE, data |-> <<>>]

\* the locals of the PROCESSING branch, as the last call left them: ran is
\* TRUE when the call reached "Convert to millivolts", mV is the average,
\* calibrated and compensated tell which steps were applied, rawValue is the
\* result of the two-point formula and unclamped the value that entered the
\* range checks
\* calibratePHXReading is not running; cycles counts the cycles that ended
\* during the call and signal collects the samples they converted
NoCalib ==
    [pc |-> "none", type |-> "", firstReading |-> 0, secondReading |-> 0,
     result |-> 0, attempts |-> 0, cycles |-> 0, signal |-> {}]

\* the last call was not a direct readADC_SingleEnded
NoAdc == [called |-> FALSE, channel |-> 0, value |-> 0]

\* the members of an instance after its constructor
Constructed ==
    [state |-> "IDLE", lastError |-> "NONE", readingComplete |-> FALSE,
     lastReading |-> 0, temperatureCompensationEnabled |-> FALSE,
     currentTemperature |-> 25 * Scale, ph_cal |-> DefaultPhCal,
     orp_cal |-> DefaultOrpCal,
     config |-> [type |-> "", samples |-> 0, delay_ms |-> 0, avg_buffer |-> 0],
     readings |-> NullPtr, lastReadings |-> NullPtr, avgBufferSize |-> 1,
     currentSample |-> 0, readingIndex |-> 0, rollingAverageReady |-> FALSE,
     lastSampleTime |-> 0, gain |-> ADS1015_REG_SET_GAIN0_6_144V]

NoConv ==
    [ran |-> FALSE, mV |-> 0, calibrated |-> FALSE, rawValue |-> 0,
     compensated |-> FALSE, unclamped |-> 0]

(***************************************************************************)
(* State                                                                   *)
(***************************************************************************)
VARIABLES
    state,                              \* _state
    lastError,                          \* _lastError
    readingComplete,                    \* _readingComplete
    lastReading,                        \* _lastReading
    temperatureCompensationEnabled,     \* _temperatureCompensationEnabled
    currentTemperature,                 \* _currentTemperature
    ph_cal,
    orp_cal,
    config,                             \* _config
    readings,                           \* _readings (sample buffer)
    lastReadings,                       \* _lastReadings (rolling-average ring)
    avgBufferSize,                      \* _avgBufferSize
    currentSample,                      \* _currentSample
    readingIndex,                       \* _readingIndex
    rollingAverageReady,                \* _rollingAverageReady
    lastSampleTime,                     \* _lastSampleTime
    gain,                               \* _gain
    now,                                \* value of millis()
    ticks,                              \* milliseconds elapsed so far
    lastCall,                           \* the state-machine operation called
                                        \* last, "other" for any other step
    preState,                           \* _state when it was called
    busOps,                             \* register transfers it issued
    written,                            \* buffer indices it wrote (0-based)
    readIdx,                            \* buffer indices it read (0-based)
    updates,                            \* updateReading calls since the cycle
                                        \* was started, up to UpdatesCap
    conv,                               \* the locals of the conversion it ran
    calib,                              \* calibratePHXReading: its position
                                        \* and locals, pc "none" when it is
                                        \* not running
    adc,                                \* the direct readADC_SingleEnded call
                                        \* made last: channel and result
    peer,                               \* the members of the other instance
                                        \* of the sketch
    wire                                \* the contents the conversion
                                        \* register of the chip can present

device ==
    <<state, lastError, readingComplete, lastReading,
      temperatureCompensationEnabled, currentTemperature, ph_cal, orp_cal,
      config, readings, lastReadings, avgBufferSize, currentSample,
      readingIndex, rollingAverageReady, lastSampleTime, gain>>

clock == <<now, ticks>>

trace == <<lastCall, preState, busOps, written, readIdx, updates, conv, adc>>

vars == <<device, clock, trace, calib, peer, wire>>

\* the in-class member initialisers of the header; _config has no
\* initialiser and is zero for an instance with static storage
Init ==
    /\ state = "IDLE"
    /\ lastError = "NONE"
    /\ readingComplete = FALSE
    /\ lastReading = 0
    /\ temperatureCompensationEnabled = FALSE
    /\ currentTemperature = 25 * Scale
    /\ ph_cal = DefaultPhCal
    /\ orp_cal = DefaultOrpCal
    /\ config = [type |-> "", samples |-> 0, delay_ms |-> 0, avg_buffer |-> 0]
    /\ readings = NullPtr
    /\ lastReadings = NullPtr
    /\ avgBufferSize = 1
    /\ currentSample = 0
    /\ readingIndex = 0
    /\ rollingAverageReady = FALSE
    /\ lastSampleTime = 0
    /\ gain = ADS1015_REG_SET_GAIN0_6_144V
    /\ now \in StartClocks
    /\ ticks = 0
    /\ lastCall = "other"
    /\ preState = "IDLE"
    /\ busOps = 0
    /\ written = {}
    /\ readIdx = {}
    /\ updates = UpdatesCap
    /\ conv = NoConv
    /\ calib = NoCalib
    /\ adc = NoAdc
    /\ wire = RegValues
    /\ peer = Constructed

\* what every call records about itself, but for the conversion; a
\* startReading made by calibratePHXReading moves it on to its polling loop
Recorded(name, ops, stores, loads) ==
    /\ lastCall' = name
    /\ preState' = state
    /\ busOps' = ops
    /\ written' = stores
    /\ readIdx' = loads
    /\ updates' =
         CASE name = "startReading" /\ state = "IDLE" -> 0
           [] name = "cancelReading" -> UpdatesCap
           [] name = "updateReading" /\ updates < UpdatesCap -> updates + 1
           [] OTHER -> updates
    /\ calib' =
         CASE name = "startReading" /\ calib.pc \in {"start1", "start2"} ->
                [calib EXCEPT !.pc = IF calib.pc = "start1"
                                     THEN "poll1" ELSE "poll2"]
           [] name = "updateReading" /\ state = "PROCESSING"
              /\ calib.pc \in {"poll1", "poll2"} ->
                [calib EXCEPT !.cycles = @ + 1,
                              !.signal = @ \cup {readings.data[i] :
                                                   i \in 1..config.samples}]
           [] OTHER -> calib
    /\ adc' = NoAdc
    /\ wire' = wire

\* a call that runs no conversion
Called(name, ops, stores, loads) ==
    /\ Recorded(name, ops, stores, loads)
    /\ conv' = NoConv
    /\ peer' = peer

(***************************************************************************)
(* startReading                                                            *)
(***************************************************************************)
\* faulty variant of StartAccepted: the last value is reset with the cycle
StartAcceptedClearsValue(cfg) ==
    /\ config' = cfg
    /\ currentSample' = 0
    /\ readingComplete' = FALSE
    /\ lastError' = "NONE"
    /\ avgBufferSize' = constrain(cfg.avg_buffer, 1, MAX_AVG_BUFFER)
    /\ lastReadings' =
         [alloc |-> TRUE, data |-> [i \in 1..avgBufferSize' |-> 0]]
    /\ readingIndex' = 0
    /\ rollingAverageReady' = FALSE
    /\ readings' =
         [alloc |-> TRUE, data |-> [i \in 1..cfg.samples |-> Indeterminate]]
    /\ state' = "COLLECTING"
    /\ lastReading' = 0
    /\ UNCHANGED <<temperatureCompensationEnabled,
                   currentTemperature, ph_cal, orp_cal, lastSampleTime, gain>>

\* the body of startReading after its guard
StartAccepted(cfg) ==
    /\ config' = cfg
    /\ currentSample' = 0
    /\ readingComplete' = FALSE
    /\ lastError' = "NONE"
    /\ avgBufferSize' = constrain(cfg.avg_buffer, 1, MAX_AVG_BUFFER)
    /\ lastReadings' =
         [alloc |-> TRUE, data |-> [i \in 1..avgBufferSize' |-> 0]]
    /\ readingIndex' = 0
    /\ rollingAverageReady' = FALSE
    /\ readings' =
         [alloc |-> TRUE, data |-> [i \in 1..cfg.samples |-> Indeterminate]]
    /\ state' = "COLLECTING"
    /\ UNCHANGED <<lastReading, temperatureCompensationEnabled,
                   currentTemperature, ph_cal, orp_cal, lastSampleTime, gain>>

\* faulty variant of StartReading: the IDLE guard is missing
StartReadingUnguarded(cfg) ==
    /\ Called("startReading", 0, {}, {})
    /\ UNCHANGED clock
    /\ StartAccepted(cfg)

StartReading(cfg) ==
    /\ Called("startReading", 0, {}, {})
    /\ UNCHANGED clock
    /\ IF state # "IDLE" THEN UNCHANGED device ELSE StartAccepted(cfg)

(***************************************************************************)
(* updateReading                                                           *)
(***************************************************************************)
\* faulty variant of Elapsed: both operands of the difference are the clock
ElapsedZero == (now - now) % ClockMod

\* faulty variant of Elapsed: the difference is taken without wraparound
ElapsedAbs == Abs(now - lastSampleTime)

\* millis() - _lastSampleTime, an unsigned subtraction
Elapsed == (now - lastSampleTime) % ClockMod

\* _config.delay_ms converted to unsigned long for the comparison
DelayUnsigned == config.delay_ms % ClockMod

\* faulty variant of SampleDue: > for >=
SampleDueStrict == Elapsed > DelayUnsigned

\* faulty variant of SampleDue: the delay is not checked
SampleDueAlways == TRUE

\* the condition of the COLLECTING branch
SampleDue == Elapsed >= DelayUnsigned

\* faulty variant of AfterSample: one sample more than requested is awaited
AfterSampleLate(n) == IF n > config.samples THEN "PROCESSING" ELSE "COLLECTING"

\* faulty variant of AfterSample: the cycle is closed as soon as the samples are in
AfterSampleIdle(n) == IF n >= config.samples THEN "IDLE" ELSE "COLLECTING"

\* _state after the sample count has become n
AfterSample(n) == IF n >= config.samples THEN "PROCESSING" ELSE "COLLECTING"

\* milliseconds by which millis() may advance across the delay(1) inside
\* readADC_SingleEnded, within the clock budget of the model
ReadAdvance == IF ticks < MaxTicks THEN {0, 1} ELSE {0}

\* _readings[_currentSample] = v.  A store at an index inside the buffer
\* updates it.  A store past its end is undefined: it lands in the
\* allocator's slack (no object of the model changes) or on a neighbouring
\* heap block: the rolling-average ring, or a buffer of the other instance.
StoreSample(v) ==
    IF currentSample < Len(readings.data)
    THEN /\ readings' = [readings EXCEPT !.data[currentSample + 1] = v]
         /\ UNCHANGED <<lastReadings, peer>>
    ELSE /\ UNCHANGED readings
         /\ \/ UNCHANGED <<lastReadings, peer>>
            \/ /\ lastReadings.alloc
               /\ lastReadings' = [lastReadings EXCEPT !.data[1] = v]
               /\ UNCHANGED peer
            \/ /\ peer.readings.alloc
               /\ Len(peer.readings.data) >= 1
               /\ peer' = [peer EXCEPT !.readings.data[1] = v]
               /\ UNCHANGED lastReadings

\* the contents the conversion register can have when it is read
AdcRegs == IF calib.pc = "none" THEN wire ELSE CalRegValues

\* COLLECTING branch with the sample due: one read, one store
TakeSample ==
    \E reg \in AdcRegs, d \in ReadAdvance :
        LET rawReading == readADC_SingleEnded(0, reg)
        IN  /\ Recorded("updateReading", readADC_BusOps(0), {currentSample}, {})
            /\ conv' = NoConv
            /\ StoreSample(SampleVolts(rawReading, gain))
            /\ now' = (now + d) % ClockMod
            /\ ticks' = ticks + d
            /\ lastSampleTime' = now'
            /\ currentSample' = currentSample + 1
            /\ state' = AfterSample(currentSample')
            /\ UNCHANGED <<lastError, readingComplete, lastReading,
                           temperatureCompensationEnabled, currentTemperature,
                           ph_cal, orp_cal, config, avgBufferSize,
                           readingIndex, rollingAverageReady, gain>>

\* the call records nothing but itself and changes nothing
NoOp(name) ==
    /\ Called(name, 0, {}, {})
    /\ UNCHANGED <<device, clock>>

Collecting == IF SampleDue THEN TakeSample ELSE NoOp("updateReading")

\* faulty variant of RangeCheck: the ORP branch reports the pH codes
RangeCheckPhCodes(type, v, err) ==
    IF type = "ph" \/ type = "rx"
    THEN IF v < 0 THEN [value |-> 0, error |-> "PH_LOW"]
         ELSE IF v > (IF type = "ph" THEN 14 * Scale ELSE 1000 * Scale)
              THEN [value |-> IF type = "ph" THEN 14 * Scale
                              ELSE 1000 * Scale,
                    error |-> "PH_HIGH"]
         ELSE [value |-> v, error |-> "NONE"]
    ELSE [value |-> v, error |-> err]

\* the range checks of the PROCESSING branch; err is _lastError on entry
RangeCheck(type, v, err) ==
    IF type = "ph"
    THEN IF v < 0 THEN [value |-> 0, error |-> "PH_LOW"]
         ELSE IF v > 14 * Scale THEN [value |-> 14 * Scale, error |-> "PH_HIGH"]
         ELSE [value |-> v, error |-> "NONE"]
    ELSE IF type = "rx"
    THEN IF v < 0 THEN [value |-> 0, error |-> "ORP_LOW"]
         ELSE IF v > 1000 * Scale
              THEN [value |-> 1000 * Scale, error |-> "ORP_HIGH"]
         ELSE [value |-> v, error |-> "NONE"]
    ELSE [value |-> v, error |-> err]

\* faulty variant of Compensates: the type is not looked at
CompensatesAnyType(type, enabled, temp) ==
    enabled /\ isValidTemperature(temp)

\* the condition under which the PROCESSING branch compensates
Compensates(type, enabled, temp) ==
    /\ type = "ph"
    /\ enabled
    /\ isValidTemperature(temp)

\* faulty variant of ConvertWith: the range check and clamp come before the
\* compensation
ConvertWithClampFirst(type, cal, enabled, temp, samples, err) ==
    LET mV == AverageMilliVolts(samples)
    IN  IF IsCalibrated(cal)
        THEN LET rawValue == TwoPoint(cal, mV)
                 comp == Compensates(type, enabled, temp)
                 r == RangeCheck(type, rawValue, err)
                 v == IF comp
                      THEN applyTemperatureCompensation(r.value, temp)
                      ELSE r.value
             IN  [value |-> v, error |-> r.error,
                  locals |-> [ran |-> TRUE, mV |-> mV, calibrated |-> TRUE,
                              rawValue |-> rawValue, compensated |-> comp,
                              unclamped |-> v]]
        ELSE [value |-> mV, error |-> err,
              locals |-> [ran |-> TRUE, mV |-> mV, calibrated |-> FALSE,
                          rawValue |-> 0, compensated |-> FALSE,
                          unclamped |-> mV]]

\* the conversion of the PROCESSING branch for at least one valid sample:
\* average, calibrate, compensate, range-check.  type is _config.type, cal
\* the record it selects, enabled and temp the compensation settings, err
\* the value of _lastError on entry.
ConvertWith(type, cal, enabled, temp, samples, err) ==
    LET mV == AverageMilliVolts(samples)
    IN  IF IsCalibrated(cal)
        THEN LET rawValue == TwoPoint(cal, mV)
                 comp == Compensates(type, enabled, temp)
                 v == IF comp
                      THEN applyTemperatureCompensation(rawValue, temp)
                      ELSE rawValue
                 r == RangeCheck(type, v, err)
             IN  [value |-> r.value, error |-> r.error,
                  locals |-> [ran |-> TRUE, mV |-> mV, calibrated |-> TRUE,
                              rawValue |-> rawValue, compensated |-> comp,
                              unclamped |-> v]]
        ELSE [value |-> mV, error |-> err,
              locals |-> [ran |-> TRUE, mV |-> mV, calibrated |-> FALSE,
                          rawValue |-> 0, compensated |-> FALSE,
                          unclamped |-> mV]]

\* faulty variant of SelectedCal: the pH record serves every type
SelectedCalPh(type) == ph_cal

\* the record the PROCESSING branch selects for a type string
SelectedCal(type) == IF type = "ph" THEN ph_cal ELSE orp_cal

\* the conversion with the members of the instance
Convert(samples, err) ==
    ConvertWith(config.type, SelectedCal(config.type),
                temperatureCompensationEnabled, currentTemperature,
                samples, err)

\* the buffer entries the averaging loop visits: i = 0 .. _config.samples - 1
LoopIndices == 0..(config.samples - 1)

\* the values the loop can see: an indeterminate entry reads as any sample
Seen(data) ==
    { s \in [1..Len(data) -> {SampleVolts(readADC_SingleEnded(0, r), g) :
                                   r \in RegValues, g \in Gains}
                               \cup {x \in {data[i] : i \in 1..Len(data)} :
                                       x # Indeterminate}] :
        \A i \in 1..Len(data) : data[i] # Indeterminate => s[i] = data[i] }

\* faulty variant of NoValidSamples: _lastReading is not reset
NoValidSamplesKeepsReading ==
    /\ lastReading' = lastReading
    /\ state' = "IDLE"
    /\ readingComplete' = TRUE
    /\ conv' = NoConv
    /\ UNCHANGED <<lastError, readings>>

\* PROCESSING branch, no valid sample: the early break
NoValidSamples ==
    /\ lastReading' = 0
    /\ state' = "IDLE"
    /\ readingComplete' = TRUE
    /\ conv' = NoConv
    /\ UNCHANGED <<lastError, readings>>

\* faulty variant of Converted: with a ring deeper than 1 the result is
\* averaged with that of the cycle before
ConvertedBlended(samples) ==
    LET r == Convert(samples, lastError)
    IN  /\ lastReading' = IF avgBufferSize > 1
                          THEN (r.value + lastReading) \div 2
                          ELSE r.value
        /\ lastError' = r.error
        /\ readings' = NullPtr
        /\ readingComplete' = TRUE
        /\ state' = "IDLE"
        /\ conv' = r.locals

\* PROCESSING branch, at least one valid sample
Converted(samples) ==
    LET r == Convert(samples, lastError)
    IN  /\ lastReading' = r.value
        /\ lastError' = r.error
        /\ readings' = NullPtr
        /\ readingComplete' = TRUE
        /\ state' = "IDLE"
        /\ conv' = r.locals

\* every stored sample is finite (an int16_t times a finite range), so the
\* valid samples are the entries the loop visits
Processing ==
    /\ Recorded("updateReading", 0, {}, LoopIndices)
    /\ UNCHANGED clock
    /\ UNCHANGED peer
    /\ UNCHANGED <<temperatureCompensationEnabled, currentTemperature, ph_cal,
                   orp_cal, config, lastReadings, avgBufferSize, currentSample,
                   readingIndex, rollingAverageReady, lastSampleTime, gain>>
    /\ LET visited == SubSeq(readings.data, 1, config.samples)
       IN  IF Len(visited) = 0
           THEN NoValidSamples
           ELSE \E samples \in Seen(visited) : Converted(samples)

\* faulty variant of UpdateReading: IDLE is handled like COLLECTING
UpdateReadingIdleCollects ==
    CASE state = "PROCESSING" -> Processing
      [] OTHER -> Collecting

UpdateReading ==
    CASE state = "COLLECTING" -> Collecting
      [] state = "PROCESSING" -> Processing
      [] OTHER -> NoOp("updateReading")

(***************************************************************************)
(* cancelReading, temperature, calibration, gain                           *)
(***************************************************************************)
\* faulty variant of CancelReading: the completion flag is left as it is
CancelReadingKeepsFlag ==
    /\ Called("cancelReading", 0, {}, {})
    /\ UNCHANGED clock
    /\ readings' = NullPtr
    /\ state' = "IDLE"
    /\ lastError' = "NONE"
    /\ UNCHANGED <<readingComplete, lastReading,
                   temperatureCompensationEnabled, currentTemperature, ph_cal,
                   orp_cal, config, lastReadings, avgBufferSize, currentSample,
                   readingIndex, rollingAverageReady, lastSampleTime, gain>>

\* faulty variant of CancelReading: the last error is not cleared
CancelReadingKeepsError ==
    /\ Called("cancelReading", 0, {}, {})
    /\ UNCHANGED clock
    /\ readings' = NullPtr
    /\ state' = "IDLE"
    /\ readingComplete' = FALSE
    /\ UNCHANGED <<lastError, lastReading, temperatureCompensationEnabled,
                   currentTemperature, ph_cal, orp_cal, config, lastReadings,
                   avgBufferSize, currentSample, readingIndex,
                   rollingAverageReady, lastSampleTime, gain>>

CancelReading ==
    /\ Called("cancelReading", 0, {}, {})
    /\ UNCHANGED clock
    /\ readings' = NullPtr
    /\ state' = "IDLE"
    /\ readingComplete' = FALSE
    /\ lastError' = "NONE"
    /\ UNCHANGED <<lastReading, temperatureCompensationEnabled,
                   currentTemperature, ph_cal, orp_cal, config, lastReadings,
                   avgBufferSize, currentSample, readingIndex,
                   rollingAverageReady, lastSampleTime, gain>>

\* faulty variant of EnableTemperatureCompensation: the flag is latched
\* while a cycle is in flight
EnableTemperatureCompensationIdleOnly(enabled) ==
    /\ Called("other", 0, {}, {})
    /\ UNCHANGED clock
    /\ temperatureCompensationEnabled' =
         IF state = "IDLE" THEN enabled ELSE temperatureCompensationEnabled
    /\ UNCHANGED <<state, lastError, readingComplete, lastReading,
                   currentTemperature, ph_cal, orp_cal, config, readings,
                   lastReadings, avgBufferSize, currentSample, readingIndex,
                   rollingAverageReady, lastSampleTime, gain>>

EnableTemperatureCompensation(enabled) ==
    /\ Called("other", 0, {}, {})
    /\ UNCHANGED clock
    /\ temperatureCompensationEnabled' = enabled
    /\ UNCHANGED <<state, lastError, readingComplete, lastReading,
                   currentTemperature, ph_cal, orp_cal, config, readings,
                   lastReadings, avgBufferSize, currentSample, readingIndex,
                   rollingAverageReady, lastSampleTime, gain>>

\* faulty variant of SetTemperature: a valid temperature clears any error
SetTemperatureClearsAll(temperature) ==
    /\ Called("other", 0, {}, {})
    /\ UNCHANGED clock
    /\ IF isValidTemperature(temperature)
       THEN /\ currentTemperature' = temperature
            /\ lastError' = "NONE"
       ELSE /\ lastError' = "TEMP_INVALID"
            /\ UNCHANGED currentTemperature
    /\ UNCHANGED <<state, readingComplete, lastReading,
                   temperatureCompensationEnabled, ph_cal, orp_cal, config,
                   readings, lastReadings, avgBufferSize, currentSample,
                   readingIndex, rollingAverageReady, lastSampleTime, gain>>

SetTemperature(temperature) ==
    /\ Called("other", 0, {}, {})
    /\ UNCHANGED clock
    /\ IF isValidTemperature(temperature)
       THEN /\ currentTemperature' = temperature
            /\ lastError' = IF lastError = "TEMP_INVALID"
                            THEN "NONE" ELSE lastError
       ELSE /\ lastError' = "TEMP_INVALID"
            /\ UNCHANGED currentTemperature
    /\ UNCHANGED <<state, readingComplete, lastReading,
                   temperatureCompensationEnabled, ph_cal, orp_cal, config,
                   readings, lastReadings, avgBufferSize, currentSample,
                   readingIndex, rollingAverageReady, lastSampleTime, gain>>

\* faulty variant of CalibratePHX: every type but "ph" stores the ORP record
CalibratePHXElse(type, cal) ==
    /\ Called("other", 0, {}, {})
    /\ UNCHANGED clock
    /\ ph_cal' = IF type = "ph" THEN cal ELSE ph_cal
    /\ orp_cal' = IF type # "ph" THEN cal ELSE orp_cal
    /\ UNCHANGED <<state, lastError, readingComplete, lastReading,
                   temperatureCompensationEnabled, currentTemperature, config,
                   readings, lastReadings, avgBufferSize, currentSample,
                   readingIndex, rollingAverageReady, lastSampleTime, gain>>

CalibratePHX(type, cal) ==
    /\ Called("other", 0, {}, {})
    /\ UNCHANGED clock
    /\ ph_cal' = IF type = "ph" THEN cal ELSE ph_cal
    /\ orp_cal' = IF type # "ph" /\ type = "rx" THEN cal ELSE orp_cal
    /\ UNCHANGED <<state, lastError, readingComplete, lastReading,
                   temperatureCompensationEnabled, currentTemperature, config,
                   readings, lastReadings, avgBufferSize, currentSample,
                   readingIndex, rollingAverageReady, lastSampleTime, gain>>

SetGain(g) ==
    /\ Called("other", 0, {}, {})
    /\ UNCHANGED clock
    /\ gain' = g
    /\ UNCHANGED <<state, lastError, readingComplete, lastReading,
                   temperatureCompensationEnabled, currentTemperature, ph_cal,
                   orp_cal, config, readings, lastReadings, avgBufferSize,
                   currentSample, readingIndex, rollingAverageReady,
                   lastSampleTime>>

\* one millisecond passes between two calls
Tick ==
    /\ ticks < MaxTicks
    /\ now' = (now + 1) % ClockMod
    /\ ticks' = ticks + 1
    /\ Called("other", 0, {}, {})
    /\ UNCHANGED device

Next ==
    \/ \E cfg \in Configs : StartReading(cfg)
    \/ UpdateReading
    \/ CancelReading
    \/ \E enabled \in BOOLEAN : EnableTemperatureCompensation(enabled)
    \/ \E temperature \in Temperatures : SetTemperature(temperature)
    \/ \E c \in CalCalls : CalibratePHX(c[1], c[2])
    \/ \E g \in Gains : SetGain(g)
    \/ Tick

Spec == Init /\ [][Next]_vars

(***************************************************************************)
(* The polling loop                                                        *)
(*                                                                         *)
(* The sketch configures the instance, starts one cycle and then calls     *)
(* updateReading() until getState() is IDLE, while millis() advances.      *)
(* Nothing else runs between the polls.  The cycle is started with a       *)
(* non-negative delay_ms.                                                  *)
(***************************************************************************)

PollConfigs == {cfg \in Configs : cfg.delay_ms >= 0}

\* the longest delay_ms of a polled configuration
PollMaxDelay ==
    CHOOSE d \in {cfg.delay_ms : cfg \in PollConfigs} :
        \A cfg \in PollConfigs : cfg.delay_ms <= d

\* clock steps that suffice for any polled cycle: those of setup and of the
\* reads, and one full delay before each sample
PollTicks == MaxTicks + PollMaxDelay * (MaxSamples + 1)

\* no cycle has been started yet
PollSetup == state = "IDLE" /\ ~readingComplete

PollConfigure ==
    /\ PollSetup
    /\ \/ \E enabled \in BOOLEAN : EnableTemperatureCompensation(enabled)
       \/ \E temperature \in Temperatures : SetTemperature(temperature)
       \/ \E c \in CalCalls : CalibratePHX(c[1], c[2])
       \/ \E g \in Gains : SetGain(g)
       \/ Tick

PollStart ==
    /\ PollSetup
    /\ \E cfg \in PollConfigs : StartReading(cfg)

\* while (getState() != IDLE) updateReading();
PollUpdate ==
    /\ state # "IDLE"
    /\ UpdateReading

\* millis() advances while the loop waits for the next sample to be due
PollTick ==
    /\ state = "COLLECTING"
    /\ ~SampleDue
    /\ ticks < PollTicks
    /\ now' = (now + 1) % ClockMod
    /\ ticks' = ticks + 1
    /\ Called("other", 0, {}, {})
    /\ UNCHANGED device

PollNext ==
    \/ PollConfigure
    \/ PollStart
    \/ PollUpdate
    \/ PollTick

\* the loop keeps polling and the clock keeps advancing
SpecPoll ==
    /\ Init
    /\ [][PollNext]_vars
    /\ WF_vars(PollUpdate)
    /\ WF_vars(PollTick)

(***************************************************************************)
(* The conversion                                                          *)
(*                                                                         *)
(* The PROCESSING branch is a function of the collected samples, the       *)
(* configuration, the calibration records, the compensation settings and   *)
(* _lastError.  Here the instance starts where the last sample of a cycle  *)
(* has just been stored, with these inputs drawn from the sets below, and  *)
(* the next call of updateReading() converts them.                         *)
(***************************************************************************)

\* records with a falling slope: (50 mV -> 7.5, 100 mV -> 7.0) and
\* (0 mV -> 650, 100 mV -> 475)
PhRecordNeg ==
    [ref1_mV |-> 50 * Scale, ref2_mV |-> 100 * Scale,
     ref1_value |-> (15 * Scale) \div 2, ref2_value |-> 7 * Scale]

OrpRecordNeg ==
    [ref1_mV |-> 0, ref2_mV |-> 100 * Scale, ref1_value |-> 650 * Scale,
     ref2_value |-> 475 * Scale]

ConvPhCals == {DefaultPhCal, PhRecord, PhRecordNeg}

ConvOrpCals == {DefaultOrpCal, OrpRecord, OrpRecordNeg}

\* the gain of the converted cycles: 2 mV per count
ConvGain == ADS1015_REG_SET_GAIN1_4_096V

\* conversion-register contents of the samples of a cycle: cycles of one
\* sample of 0, 50, 100, 150, 200, 330, 340 and 4094 mV, and one of two
\* samples that average to 50 mV
ConvRegs ==
    { <<0>>, <<25 * 16>>, <<50 * 16>>, <<75 * 16>>, <<100 * 16>>,
      <<165 * 16>>, <<170 * 16>>, <<2047 * 16>>, <<0, 50 * 16>> }

\* values of _currentTemperature: setTemperature stores 0..50 only
ConvTemps == {0, 25 * Scale, 30 * Scale, 50 * Scale}

ConvInit ==
    /\ state = "PROCESSING"
    /\ lastError \in {"NONE", "TEMP_INVALID"}
    /\ readingComplete = FALSE
    /\ lastReading = 0
    /\ temperatureCompensationEnabled \in BOOLEAN
    /\ currentTemperature \in ConvTemps
    /\ ph_cal \in ConvPhCals
    /\ orp_cal \in ConvOrpCals
    /\ readings \in
         { [alloc |-> TRUE,
            data |-> [i \in 1..Len(regs) |->
                        SampleVolts(readADC_SingleEnded(0, regs[i]),
                                    ConvGain)]] : regs \in ConvRegs }
    /\ config \in {Cfg(t, Len(readings.data), 0, 3) : t \in {"ph", "rx"}}
    /\ avgBufferSize = constrain(config.avg_buffer, 1, MAX_AVG_BUFFER)
    /\ lastReadings = [alloc |-> TRUE, data |-> [i \in 1..avgBufferSize |-> 0]]
    /\ currentSample = config.samples
    /\ readingIndex = 0
    /\ rollingAverageReady = FALSE
    /\ now \in StartClocks
    /\ lastSampleTime = now
    /\ gain = ConvGain
    /\ ticks = 0
    /\ lastCall = "updateReading"
    /\ preState = "COLLECTING"
    /\ busOps = readADC_BusOps(0)
    /\ written = {currentSample - 1}
    /\ readIdx = {}
    /\ updates = config.samples
    /\ conv = NoConv
    /\ calib = NoCalib
    /\ adc = NoAdc
    /\ wire = RegValues
    /\ peer = Constructed

ConvNext ==
    /\ state = "PROCESSING"
    /\ UpdateReading

SpecConv == ConvInit /\ [][ConvNext]_vars

(***************************************************************************)
(* calibratePHXReading, one step per call it makes and per read of the     *)
(* result, run on an instance set up by the calls of the sketch            *)
(***************************************************************************)

\* 0.5f
STABILITY_THRESHOLD == Scale \div 2

\* calConfig, its 100 samples scaled down to the bound
CalConfig(type) == Cfg(type, MaxSamples, CalDelayMs, 1)

\* the gain the sketch selects for a probe in a buffer solution
CalGain == ADS1015_REG_SET_GAIN16_0_256V

\* cycles the sketch may have in flight when it calls calibratePHXReading
CalInFlight == {Cfg("rx", MaxSamples, 2, 0)}

CalTypes == {"ph", "rx"}

\* a step of calibratePHXReading that calls nothing on the instance
CalStep(c) ==
    /\ calib' = c
    /\ lastCall' = "calibratePHXReading"
    /\ preState' = state
    /\ busOps' = 0
    /\ written' = {}
    /\ readIdx' = {}
    /\ UNCHANGED <<updates, conv, adc, peer, wire>>
    /\ UNCHANGED device

\* the calls of the sketch before calibratePHXReading
CalSetup ==
    /\ calib.pc = "none"
    /\ \/ \E enabled \in BOOLEAN : EnableTemperatureCompensation(enabled)
       \/ \E temperature \in Temperatures : SetTemperature(temperature)
       \/ \E c \in CalCalls : CalibratePHX(c[1], c[2])
       \/ SetGain(CalGain)
       \/ \E cfg \in CalInFlight : state = "IDLE" /\ StartReading(cfg)
       \/ state # "IDLE" /\ CancelReading

\* entry of calibratePHXReading(type)
CalEnter(type) ==
    /\ calib.pc = "none"
    /\ CalStep([NoCalib EXCEPT !.pc = "start1", !.type = type])
    /\ UNCHANGED clock

\* startReading(calConfig), first or second
CalStart ==
    /\ calib.pc \in {"start1", "start2"}
    /\ calib.attempts < MaxAttempts
    /\ StartReading(CalConfig(calib.type))

\* while(getState() != PHXState::IDLE) updateReading();
CalPoll ==
    /\ calib.pc \in {"poll1", "poll2"}
    /\ state # "IDLE"
    /\ UpdateReading

\* millis() reaches the time of the next sample while the loop spins
CalTick ==
    /\ calib.pc \in {"poll1", "poll2"}
    /\ state = "COLLECTING"
    /\ ~SampleDue
    /\ now' = (lastSampleTime + DelayUnsigned) % ClockMod
    /\ UNCHANGED ticks
    /\ Called("other", 0, {}, {})
    /\ UNCHANGED device

\* firstReading = getLastReading(); delay(500);
CalRead1 ==
    /\ calib.pc = "poll1"
    /\ state = "IDLE"
    /\ CalStep([calib EXCEPT !.pc = "start2", !.firstReading = lastReading])
    /\ now' = (now + CalSettleMs) % ClockMod
    /\ UNCHANGED ticks

\* faulty variant of Unstable: the threshold is taken twice
UnstableDoubled(firstReading, secondReading) ==
    Abs((firstReading + secondReading) - 2 * firstReading) >= 4 * STABILITY_THRESHOLD

\* the condition of the do-while loop, both sides doubled to stay integral
Unstable(firstReading, secondReading) ==
    \/ Abs((firstReading + secondReading) - 2 * firstReading) >= 2 * STABILITY_THRESHOLD
    \/ Abs((firstReading + secondReading) - 2 * secondReading) >= 2 * STABILITY_THRESHOLD

\* secondReading = getLastReading(); then the loop test and the return
CalRead2 ==
    /\ calib.pc = "poll2"
    /\ state = "IDLE"
    /\ UNCHANGED clock
    /\ IF Unstable(calib.firstReading, lastReading)
       THEN CalStep([calib EXCEPT !.pc = "start1",
                                  !.secondReading = lastReading,
                                  !.attempts = @ + 1])
       ELSE CalStep([calib EXCEPT !.pc = "done",
                                  !.secondReading = lastReading,
                                  !.result = DivRound(calib.firstReading + lastReading, 2)])

CalNext ==
    \/ CalSetup
    \/ \E type \in CalTypes : CalEnter(type)
    \/ CalStart
    \/ CalPoll
    \/ CalTick
    \/ CalRead1
    \/ CalRead2

SpecCal == Init /\ [][CalNext]_vars

(***************************************************************************)
(* readADC_SingleEnded called by the sketch itself, on any channel         *)
(***************************************************************************)

\* values of the uint8_t channel argument, two of them past the last input
AdcChannels == 0..5

\* a direct call of readADC_SingleEnded(channel); delay(1) lets the clock
\* advance only when the channel is read
ReadADC(channel) ==
    \E reg \in wire, d \in IF channel > 3 THEN {0} ELSE ReadAdvance :
        /\ lastCall' = "readADC_SingleEnded"
        /\ preState' = state
        /\ busOps' = readADC_BusOps(channel)
        /\ written' = {}
        /\ readIdx' = {}
        /\ conv' = NoConv
        /\ adc' = [called |-> TRUE, channel |-> channel,
                   value |-> readADC_SingleEnded(channel, reg)]
        /\ now' = (now + d) % ClockMod
        /\ ticks' = ticks + d
        /\ UNCHANGED <<updates, calib, peer, wire>>
        /\ UNCHANGED device

AdcNext ==
    \/ \E cfg \in Configs : StartReading(cfg)
    \/ UpdateReading
    \/ CancelReading
    \/ \E g \in Gains : SetGain(g)
    \/ \E channel \in AdcChannels : ReadADC(channel)

SpecAdc == Init /\ [][AdcNext]_vars

(***************************************************************************)
(* a sketch with two instances, one per probe, visited in turn             *)
(***************************************************************************)

\* the members of the instance the sketch is calling
Self ==
    [state |-> state, lastError |-> lastError,
     readingComplete |-> readingComplete, lastReading |-> lastReading,
     temperatureCompensationEnabled |-> temperatureCompensationEnabled,
     currentTemperature |-> currentTemperature, ph_cal |-> ph_cal,
     orp_cal |-> orp_cal, config |-> config, readings |-> readings,
     lastReadings |-> lastReadings, avgBufferSize |-> avgBufferSize,
     currentSample |-> currentSample, readingIndex |-> readingIndex,
     rollingAverageReady |-> rollingAverageReady,
     lastSampleTime |-> lastSampleTime, gain |-> gain]

\* requests the sketch makes of either instance
TwoConfigs == {Cfg("ph", 1, 0, 3), Cfg("ph", 0, 0, 3)}

\* the sketch turns to the other instance: no call is made
Switch ==
    /\ peer' = Self
    /\ state' = peer.state
    /\ lastError' = peer.lastError
    /\ readingComplete' = peer.readingComplete
    /\ lastReading' = peer.lastReading
    /\ temperatureCompensationEnabled' = peer.temperatureCompensationEnabled
    /\ currentTemperature' = peer.currentTemperature
    /\ ph_cal' = peer.ph_cal
    /\ orp_cal' = peer.orp_cal
    /\ config' = peer.config
    /\ readings' = peer.readings
    /\ lastReadings' = peer.lastReadings
    /\ avgBufferSize' = peer.avgBufferSize
    /\ currentSample' = peer.currentSample
    /\ readingIndex' = peer.readingIndex
    /\ rollingAverageReady' = peer.rollingAverageReady
    /\ lastSampleTime' = peer.lastSampleTime
    /\ gain' = peer.gain
    /\ lastCall' = "switch"
    /\ preState' = state
    /\ busOps' = 0
    /\ written' = {}
    /\ readIdx' = {}
    /\ conv' = NoConv
    /\ adc' = NoAdc
    /\ wire' = wire
    /\ UNCHANGED <<updates, calib>>
    /\ UNCHANGED clock

\* the instance called has not been given a request: the sketch configures it
TwoConfigure ==
    /\ config = Constructed.config
    /\ \/ SetTemperature(30 * Scale)
       \/ CalibratePHX("ph", PhRecord)
       \/ SetGain(ADS1015_REG_SET_GAIN1_4_096V)

\* a request is made of an instance at rest
TwoStart ==
    /\ state = "IDLE"
    /\ \E cfg \in TwoConfigs : StartReading(cfg)

\* an instance with a cycle in flight is polled
TwoUpdate ==
    /\ state # "IDLE"
    /\ UpdateReading

\* or its cycle is abandoned
TwoCancel ==
    /\ state # "IDLE"
    /\ CancelReading

TwoNext ==
    \/ Switch
    \/ TwoConfigure
    \/ TwoStart
    \/ TwoUpdate
    \/ TwoCancel

SpecTwo == Init /\ [][TwoNext]_vars

(***************************************************************************)
(* the conversion of a sample: any gain setGain can store, any content     *)
(* of the conversion register                                              *)
(***************************************************************************)

\* uint16_t values passed to setGain: the six codes and three that are none
SampleGains ==
    {ADS1015_REG_SET_GAIN0_6_144V, ADS1015_REG_SET_GAIN1_4_096V,
     ADS1015_REG_SET_GAIN2_2_048V, ADS1015_REG_SET_GAIN4_1_024V,
     ADS1015_REG_SET_GAIN8_0_512V, ADS1015_REG_SET_GAIN16_0_256V,
     2^8, 3 * 2^10, 2^16 - 1}

\* 16-bit contents of the conversion register: 0x0000, 0x0640, 0x7FF0,
\* 0x8000 and 0xFFFF
SampleRegs == {0, 100 * 16, 2047 * 16, 2^15, 2^16 - 1}

SampleConfigs == {Cfg("ph", MaxSamples, 0, 1)}

\* a constructed instance after setGain, on a chip presenting SampleRegs
SampleInit ==
    /\ state = "IDLE"
    /\ lastError = "NONE"
    /\ readingComplete = FALSE
    /\ lastReading = 0
    /\ temperatureCompensationEnabled = FALSE
    /\ currentTemperature = 25 * Scale
    /\ ph_cal = DefaultPhCal
    /\ orp_cal = DefaultOrpCal
    /\ config = Constructed.config
    /\ readings = NullPtr
    /\ lastReadings = NullPtr
    /\ avgBufferSize = 1
    /\ currentSample = 0
    /\ readingIndex = 0
    /\ rollingAverageReady = FALSE
    /\ lastSampleTime = 0
    /\ gain \in SampleGains
    /\ now \in StartClocks
    /\ ticks = 0
    /\ lastCall = "other"
    /\ preState = "IDLE"
    /\ busOps = 0
    /\ written = {}
    /\ readIdx = {}
    /\ updates = UpdatesCap
    /\ conv = NoConv
    /\ calib = NoCalib
    /\ adc = NoAdc
    /\ peer = Constructed
    /\ wire = SampleRegs

SampleStart ==
    /\ state = "IDLE"
    /\ \E cfg \in SampleConfigs : StartReading(cfg)

SampleUpdate ==
    /\ state # "IDLE"
    /\ UpdateReading

SampleNext ==
    \/ SampleStart
    \/ SampleUpdate

SpecSample == SampleInit /\ [][SampleNext]_vars

(***************************************************************************)
(* a conversion followed by setTemperature calls                           *)
(***************************************************************************)

\* setTemperature once the cycle has completed
AfterSetTemperature ==
    /\ state = "IDLE"
    /\ readingComplete
    /\ \E temperature \in Temperatures : SetTemperature(temperature)

AfterNext ==
    \/ ConvNext
    \/ AfterSetTemperature

SpecAfter == ConvInit /\ [][AfterNext]_vars

(***************************************************************************)
(* Claims                                                                  *)
(***************************************************************************)
\* a step that is a call of the named state-machine operation
StartStep == lastCall' = "startReading"

UpdateStep == lastCall' = "updateReading"

CancelStep == lastCall' = "cancelReading"

\* C1: startReading called while the state is not IDLE is a no-op: state,
\* stored config, sample count, sample buffer, rolling ring and its size,
\* completion flag, last error and last value are unchanged.
C1_StartWhileBusyIsNoOp ==
    [][(StartStep /\ state # "IDLE") =>
         UNCHANGED <<state, config, currentSample, readings, lastReadings,
                     avgBufferSize, readingComplete, lastError,
                     lastReading>>]_vars

\* a startReading call has been made in COLLECTING with a sample collected
C1_Witness ==
    /\ lastCall = "startReading"
    /\ preState = "COLLECTING"
    /\ state = "COLLECTING"
    /\ currentSample >= 1

\* C2: startReading called in IDLE moves to COLLECTING with sample count 0,
\* completion flag false, last error NONE whatever it was, a sample buffer
\* of length config.samples and a ring of size clamp(config.avg_buffer, 1, 10).
C2_StartAccepted ==
    [][(StartStep /\ state = "IDLE") =>
         LET a == config'.avg_buffer
             depth == IF a < 1 THEN 1 ELSE IF a > 10 THEN 10 ELSE a
         IN  /\ state' = "COLLECTING"
             /\ config' \in Configs
             /\ currentSample' = 0
             /\ readingComplete' = FALSE
             /\ lastError' = "NONE"
             /\ readings'.alloc
             /\ Len(readings'.data) = config'.samples
             /\ avgBufferSize' = depth
             /\ lastReadings'.alloc
             /\ Len(lastReadings'.data) = depth]_vars

\* a cycle has just been accepted with an averaging depth above the maximum
C2_Witness ==
    /\ lastCall = "startReading"
    /\ preState = "IDLE"
    /\ state = "COLLECTING"
    /\ config.avg_buffer > MAX_AVG_BUFFER
    /\ avgBufferSize = MAX_AVG_BUFFER

\* C3: the state is IDLE initially and changes only by IDLE->COLLECTING
\* (startReading), COLLECTING->PROCESSING (updateReading), PROCESSING->IDLE
\* (updateReading) and any->IDLE (cancelReading).
C3_Transitions ==
    /\ state = "IDLE"
    /\ [][\/ state' = state
          \/ state = "IDLE" /\ state' = "COLLECTING" /\ StartStep
          \/ state = "COLLECTING" /\ state' = "PROCESSING" /\ UpdateStep
          \/ state = "PROCESSING" /\ state' = "IDLE" /\ UpdateStep
          \/ state' = "IDLE" /\ CancelStep]_vars

\* an updateReading call has taken the machine from PROCESSING to IDLE
C3_Witness ==
    /\ lastCall = "updateReading"
    /\ preState = "PROCESSING"
    /\ state = "IDLE"

\* C4: for a cycle started with samples = N >= 1 and delay_ms = 0 the state
\* is COLLECTING after k < N updateReading calls, PROCESSING after N calls,
\* and IDLE with the completion flag set after N + 1 calls.
C4_FullCycle ==
    (config.delay_ms = 0 /\ config.samples >= 1 /\ updates < UpdatesCap) =>
        /\ updates < config.samples =>
             state = "COLLECTING" /\ currentSample = updates
        /\ updates = config.samples => state = "PROCESSING"
        /\ updates = config.samples + 1 =>
             state = "IDLE" /\ readingComplete

\* a cycle of MaxSamples samples with no delay has been completed by its
\* (MaxSamples + 1)-th updateReading call
C4_Witness ==
    /\ config.delay_ms = 0
    /\ config.samples = MaxSamples
    /\ updates = MaxSamples + 1
    /\ lastCall = "updateReading"
    /\ state = "IDLE"
    /\ readingComplete

\* C5: cancelReading called in any state leaves IDLE, completion flag false,
\* last error NONE and no sample buffer, and the startReading that follows
\* is accepted.
C5_Cancel ==
    /\ [](lastCall = "cancelReading" =>
            /\ state = "IDLE"
            /\ readingComplete = FALSE
            /\ lastError = "NONE"
            /\ ~readings.alloc)
    /\ [][(lastCall = "cancelReading" /\ StartStep) =>
            state' = "COLLECTING" /\ config' \in Configs
            /\ currentSample' = 0]_vars

\* a cycle has been cancelled in PROCESSING, all its samples collected
C5_Witness ==
    /\ lastCall = "cancelReading"
    /\ preState = "PROCESSING"
    /\ currentSample = MaxSamples
    /\ state = "IDLE"

\* C6: updateReading called in IDLE changes nothing of the instance, reads
\* no clock-dependent sample and issues no bus transfer.
C6_UpdateInIdleIsNoOp ==
    [][(UpdateStep /\ state = "IDLE") =>
         /\ UNCHANGED <<device, clock>>
         /\ busOps' = 0
         /\ written' = {}]_vars

\* updateReading has been called in IDLE after a completed cycle
C6_Witness ==
    /\ lastCall = "updateReading"
    /\ preState = "IDLE"
    /\ readingComplete

\* C7: in COLLECTING, updateReading called when the time elapsed since the
\* previous sample is less than delay_ms takes no sample, issues no bus
\* transfer and leaves sample count, last-sample time, buffer and state
\* unchanged.
C7_NotDueIsNoOp ==
    [][(UpdateStep /\ state = "COLLECTING" /\ Elapsed < config.delay_ms) =>
         /\ UNCHANGED <<currentSample, lastSampleTime, readings, state,
                        now>>
         /\ busOps' = 0
         /\ written' = {}]_vars

\* updateReading has been called between two samples of a cycle, before
\* the delay had elapsed
C7_Witness ==
    /\ lastCall = "updateReading"
    /\ preState = "COLLECTING"
    /\ state = "COLLECTING"
    /\ currentSample >= 1
    /\ busOps = 0
    /\ Elapsed < config.delay_ms

\* C8: in COLLECTING, updateReading called when the elapsed time is at
\* least delay_ms takes exactly one reading, stores it at the index equal to
\* the old sample count, increments the count by one and moves to
\* PROCESSING exactly when the new count has reached config.samples.
C8_DueTakesOneSample ==
    [][(UpdateStep /\ state = "COLLECTING" /\ Elapsed >= config.delay_ms) =>
         /\ busOps' = 2
         /\ written' = {currentSample}
         /\ currentSample' = currentSample + 1
         /\ state' = "PROCESSING" <=> currentSample' >= config.samples]_vars

\* the same statement for requests with delay_ms >= 0, which the code meets
C8_DueTakesOneSampleNonNegative ==
    [][(/\ UpdateStep
        /\ state = "COLLECTING"
        /\ config.delay_ms >= 0
        /\ Elapsed >= config.delay_ms) =>
         /\ busOps' = 2
         /\ written' = {currentSample}
         /\ currentSample' = currentSample + 1
         /\ state' = "PROCESSING" <=> currentSample' >= config.samples]_vars

\* C9: every updateReading call made in PROCESSING ends in IDLE with the
\* completion flag set and the sample buffer released, so that no buffer
\* remains allocated in IDLE.
C9_ProcessingReleasesBuffer ==
    /\ (lastCall = "updateReading" /\ preState = "PROCESSING") =>
          state = "IDLE" /\ readingComplete /\ ~readings.alloc
    /\ state = "IDLE" => ~readings.alloc

\* the same statement for the path with at least one sample to average,
\* which the code meets
C9_ProcessingReleasesBufferWithSamples ==
    (lastCall = "updateReading" /\ preState = "PROCESSING"
        /\ config.samples >= 1) =>
          state = "IDLE" /\ readingComplete /\ ~readings.alloc

\* C10: every sample write of COLLECTING is at an index below the length of
\* the allocated buffer, and every sample read of PROCESSING is at an index
\* below the number of samples collected in the cycle.
C10_IndicesInBounds ==
    lastCall = "updateReading" =>
        /\ \A i \in written : i < Len(readings.data)
        /\ \A i \in readIdx : i < currentSample

\* the same statement for requests with samples >= 1, which the code meets
C10_IndicesInBoundsWithSamples ==
    (lastCall = "updateReading" /\ config.samples >= 1) =>
        /\ \A i \in written : i < Len(readings.data)
        /\ \A i \in readIdx : i < currentSample


\* C11: in the polling loop, a cycle started with samples >= 1 and a
\* non-negative delay_ms comes to state IDLE with isReadingComplete() true
C11_CycleTerminates ==
    (state = "COLLECTING" /\ config.samples >= 1 /\ config.delay_ms >= 0)
        ~> (state = "IDLE" /\ readingComplete)

\* a polled cycle of MaxSamples samples, which had to wait for the clock
\* before a sample, has completed
C11_Witness ==
    /\ state = "IDLE"
    /\ readingComplete
    /\ lastCall = "updateReading"
    /\ config.samples = MaxSamples
    /\ config.delay_ms = PollMaxDelay
    /\ ticks > MaxTicks


\* a call of updateReading() that ran the conversion
ConvStep == UpdateStep /\ state = "PROCESSING" /\ conv'.ran

\* m (mV, 1e-4 units) is 1000 times the mean of the samples (microvolts),
\* rounded
IsMilliVoltMean(m, data) ==
    2 * Abs(m * Len(data) - 10 * SumSeq(data)) <= Len(data)

\* C12: with a non-degenerate calibration and compensation disabled, the
\* converted value is ref1_value + (ref2_value - ref1_value) * (mV - ref1_mV)
\* / (ref2_mV - ref1_mV) of the averaged mV, inside or outside the span:
\* ref1_mV gives ref1_value, ref2_mV gives ref2_value, and with
\* (0 mV -> 4.0, 100 mV -> 7.0) 50 mV gives 5.5, 200 mV gives 10.0 and
\* 4094 mV gives 126.82
C12_TwoPointFormula ==
    [][(/\ ConvStep
        /\ IsCalibrated(SelectedCal(config.type))
        /\ ~temperatureCompensationEnabled)
       => LET cal == SelectedCal(config.type)
              mV == conv'.mV
              v == conv'.unclamped
          IN  /\ IsMilliVoltMean(mV, readings.data)
              /\ conv'.calibrated
              /\ v = cal.ref1_value
                       + MulDiv(cal.ref2_value - cal.ref1_value,
                                mV - cal.ref1_mV, cal.ref2_mV - cal.ref1_mV)
              /\ mV = cal.ref1_mV => v = cal.ref1_value
              /\ mV = cal.ref2_mV => v = cal.ref2_value
              /\ (cal = PhRecord /\ mV = 50 * Scale) => v = (11 * Scale) \div 2
              /\ (cal = PhRecord /\ mV = 200 * Scale) => v = 10 * Scale
              /\ (cal = PhRecord /\ mV = 4094 * Scale)
                    => v = (12682 * Scale) \div 100
              /\ (v >= 0 /\ v <= 14 * Scale) => lastReading' = v]_vars

\* a pH cycle of two samples averaging 50 mV, calibrated with
\* (0 mV -> 4.0, 100 mV -> 7.0) and not compensated, has reported 5.5
C12_Witness ==
    /\ conv.ran
    /\ conv.calibrated
    /\ ~temperatureCompensationEnabled
    /\ config.type = "ph"
    /\ config.samples > 1
    /\ ph_cal = PhRecord
    /\ conv.mV = 50 * Scale
    /\ lastReading = (11 * Scale) \div 2


\* a conversion of a pH cycle whose samples average 200 mV, with the record
\* (0 mV -> 4.0, 100 mV -> 7.0) and compensation disabled
C13_Case ==
    /\ ConvStep
    /\ config.type = "ph"
    /\ ph_cal = PhRecord
    /\ ~temperatureCompensationEnabled
    /\ IsMilliVoltMean(200 * Scale, readings.data)

\* C13 as stated: with (0 mV -> 4.0, 100 mV -> 7.0) and compensation
\* disabled, a pH cycle averaging 200 mV computes 10.0 and then reports 14.0
\* with PH_HIGH
C13_ReportsClamped ==
    [][C13_Case
       => /\ conv'.rawValue = 10 * Scale
          /\ lastReading' = 14 * Scale
          /\ lastError' = "PH_HIGH"]_vars

\* C13, amended: with (0 mV -> 4.0, 100 mV -> 7.0) and compensation
\* disabled, a pH cycle averaging 200 mV computes 10.0, which lies inside
\* [0, 14], and reports it unchanged with error NONE
C13_ReportsTen ==
    [][C13_Case
       => /\ conv'.rawValue = 10 * Scale
          /\ conv'.unclamped = 10 * Scale
          /\ lastReading' = 10 * Scale
          /\ lastError' = "NONE"]_vars

\* such a cycle has completed and reported 10.0
C13_Witness ==
    /\ conv.ran
    /\ config.type = "ph"
    /\ ph_cal = PhRecord
    /\ ~temperatureCompensationEnabled
    /\ conv.mV = 200 * Scale
    /\ lastReading = 10 * Scale
    /\ state = "IDLE"
    /\ readingComplete


\* a conversion with the two reference voltages of the selected record equal
\* within 0.001 mV
C14_Degenerate ==
    LET cal == IF config.type = "ph" THEN ph_cal ELSE orp_cal
    IN  1000 * Abs(cal.ref2_mV - cal.ref1_mV) <= Scale

C14_Case == ConvStep /\ C14_Degenerate

\* C14 as stated: with a degenerate selected record every completed cycle
\* reports the averaged sample voltage in mV, unclamped, and error NONE,
\* whatever calls were interleaved during the cycle
C14_DegenerateReportsNone ==
    [][C14_Case
       => /\ IsMilliVoltMean(lastReading', readings.data)
          /\ lastError' = "NONE"]_vars

\* C14, amended: with a degenerate selected record every completed cycle
\* reports the averaged sample voltage in mV, unclamped (0 for a cycle of no
\* samples), and leaves getLastError() as the call found it: NONE, or
\* TEMP_INVALID when setTemperature was given an invalid value since the
\* cycle was started
C14_DegenerateKeepsError ==
    [][(UpdateStep /\ state = "PROCESSING" /\ C14_Degenerate)
       => /\ IF conv'.ran
             THEN /\ IsMilliVoltMean(lastReading', readings.data)
                  /\ lastReading' = conv'.unclamped
                  /\ ~conv'.calibrated
             ELSE config.samples = 0 /\ lastReading' = 0
          /\ lastError' = lastError
          /\ lastError \in {"NONE", "TEMP_INVALID"}
          /\ state' = "IDLE"
          /\ readingComplete']_vars

\* a pH cycle with the default record has completed after an invalid
\* setTemperature: it reports 200 mV, above 14, and TEMP_INVALID
C14_Witness ==
    /\ conv.ran
    /\ ~conv.calibrated
    /\ config.type = "ph"
    /\ ph_cal = DefaultPhCal
    /\ state = "IDLE"
    /\ readingComplete
    /\ lastReading = 200 * Scale
    /\ lastError = "TEMP_INVALID"


\* C15: for a pH (max 14) or ORP (max 1000) cycle with a non-degenerate
\* record, the completed cycle reports a value in [0, max]: 0 with the kind's
\* LOW code when the unclamped value was below 0, max with the kind's HIGH
\* code when it was above max, the value unchanged with NONE otherwise; a
\* pH cycle never reports an ORP code nor an ORP cycle a pH code
C15_RangeCheck ==
    [][(/\ ConvStep
        /\ config.type \in {"ph", "rx"}
        /\ IsCalibrated(SelectedCal(config.type)))
       => LET ph == config.type = "ph"
              max == IF ph THEN 14 * Scale ELSE 1000 * Scale
              v == conv'.unclamped
          IN  /\ lastReading' >= 0
              /\ lastReading' <= max
              /\ v < 0 => /\ lastReading' = 0
                          /\ lastError' = IF ph THEN "PH_LOW" ELSE "ORP_LOW"
              /\ v > max => /\ lastReading' = max
                            /\ lastError' = IF ph THEN "PH_HIGH"
                                            ELSE "ORP_HIGH"
              /\ (v >= 0 /\ v <= max) => /\ lastReading' = v
                                         /\ lastError' = "NONE"
              /\ ph => lastError' \notin {"ORP_LOW", "ORP_HIGH"}
              /\ ~ph => lastError' \notin {"PH_LOW", "PH_HIGH"}
              /\ state' = "IDLE"
              /\ readingComplete']_vars

\* an ORP cycle whose calibrated value was negative has reported 0 with
\* ORP_LOW
C15_Witness ==
    /\ conv.ran
    /\ conv.calibrated
    /\ config.type = "rx"
    /\ conv.unclamped < 0
    /\ lastReading = 0
    /\ lastError = "ORP_LOW"
    /\ state = "IDLE"
    /\ readingComplete


\* C16: the conversion calibrates, then compensates, then clamps: the
\* compensation receives the unclamped two-point value of the averaged mV,
\* and the range check and clamp act on the compensated value.  With
\* (0 mV -> 4.0, 100 mV -> 7.0): 340 mV at 0 degrees C is 14.2 calibrated,
\* 13.5963 compensated and reported with NONE; 330 mV at 50 degrees C is
\* 13.9 calibrated, 14.4786 compensated and reported as 14.0 with PH_HIGH
C16_CalibrateCompensateClamp ==
    [][(/\ ConvStep
        /\ config.type = "ph"
        /\ IsCalibrated(ph_cal)
        /\ temperatureCompensationEnabled)
       => LET mV == conv'.mV
              raw == ph_cal.ref1_value
                       + MulDiv(ph_cal.ref2_value - ph_cal.ref1_value,
                                mV - ph_cal.ref1_mV,
                                ph_cal.ref2_mV - ph_cal.ref1_mV)
              comp == MulDiv(raw - 7 * Scale, 2731500 + currentTemperature,
                             2731500 + 25 * Scale) + 7 * Scale
          IN  /\ IsMilliVoltMean(mV, readings.data)
              /\ conv'.compensated
              /\ conv'.rawValue = raw
              /\ conv'.unclamped = comp
              /\ lastReading' = constrain(comp, 0, 14 * Scale)
              /\ lastError' = IF comp < 0 THEN "PH_LOW"
                              ELSE IF comp > 14 * Scale THEN "PH_HIGH"
                              ELSE "NONE"
              /\ (ph_cal = PhRecord /\ mV = 340 * Scale
                    /\ currentTemperature = 0)
                    => /\ raw = 142000
                       /\ lastReading' = 135963
                       /\ lastError' = "NONE"
              /\ (ph_cal = PhRecord /\ mV = 330 * Scale
                    /\ currentTemperature = 50 * Scale)
                    => /\ raw = 139000
                       /\ comp = 144786
                       /\ lastReading' = 14 * Scale
                       /\ lastError' = "PH_HIGH"]_vars

\* a compensated pH cycle whose calibrated value 14.2 was above the domain
\* has reported the compensated 13.5963 with NONE
C16_Witness ==
    /\ conv.ran
    /\ conv.compensated
    /\ config.type = "ph"
    /\ ph_cal = PhRecord
    /\ currentTemperature = 0
    /\ conv.rawValue > 14 * Scale
    /\ lastReading = conv.unclamped
    /\ lastReading < 14 * Scale
    /\ lastError = "NONE"


C18_OrpIgnoresTemperature ==
    [][/\ (UpdateStep /\ state = "PROCESSING" /\ config.type = "rx")
          => LET samples == SubSeq(readings.data, 1, config.samples)
             IN  \A e \in BOOLEAN, T \in ConvTemps,
                    err \in {"NONE", "TEMP_INVALID"} :
                     lastReading' =
                        IF Len(samples) = 0 THEN 0
                        ELSE ConvertWith("rx", orp_cal, e, T, samples,
                                         err).value
       /\ (\/ \E t \in Temperatures : SetTemperature(t)
           \/ \E e \in BOOLEAN : EnableTemperatureCompensation(e))
          => UNCHANGED <<state, readingComplete, lastReading, ph_cal, orp_cal,
                         config, readings, lastReadings, avgBufferSize,
                         currentSample, readingIndex, rollingAverageReady,
                         lastSampleTime, gain, clock>>]_vars

\* a calibrated "rx" cycle has completed with compensation enabled at
\* 30 degrees C and reports the uncompensated 825 mV
C18_Witness ==
    /\ conv.ran
    /\ conv.calibrated
    /\ ~conv.compensated
    /\ config.type = "rx"
    /\ temperatureCompensationEnabled
    /\ currentTemperature = 30 * Scale
    /\ lastReading = 825 * Scale
    /\ state = "IDLE"
    /\ readingComplete


\* C19: the compensation has 7.0 as fixed point and 25 degrees C as
\* reference: a compensated pH cycle whose calibrated value is exactly 7.0
\* reports 7.0 at every temperature, and at 25 degrees C the compensated
\* value is the calibrated value
C19_FixedPointAndReference ==
    [][(/\ ConvStep
        /\ config.type = "ph"
        /\ IsCalibrated(ph_cal)
        /\ temperatureCompensationEnabled)
       => /\ conv'.compensated
          /\ conv'.rawValue = 7 * Scale
                => /\ conv'.unclamped = 7 * Scale
                   /\ lastReading' = 7 * Scale
                   /\ lastError' = "NONE"
          /\ currentTemperature = 25 * Scale
                => conv'.unclamped = conv'.rawValue]_vars

\* a compensated pH cycle with calibrated value 7.0 at 50 degrees C has
\* reported 7.0
C19_Witness ==
    /\ conv.ran
    /\ conv.compensated
    /\ config.type = "ph"
    /\ currentTemperature = 50 * Scale
    /\ conv.rawValue = 7 * Scale
    /\ lastReading = 7 * Scale
    /\ lastError = "NONE"


\* C20: setTemperature(t) with t outside [0, 50] sets getLastError() to
\* TEMP_INVALID and leaves getCurrentTemperature() as it was; a
\* setTemperature(t) with t inside [0, 50] that follows it stores t and
\* resets getLastError() to NONE
C20_SetTemperature ==
    [][\A t \in Temperatures :
          SetTemperature(t)
          => IF t < 0 \/ t > 50 * Scale
             THEN /\ lastError' = "TEMP_INVALID"
                  /\ currentTemperature' = currentTemperature
             ELSE /\ currentTemperature' = t
                  /\ lastError = "TEMP_INVALID" => lastError' = "NONE"]_vars

\* an invalid temperature has been rejected after 30 degrees C was stored:
\* TEMP_INVALID is reported and 30 is retained
C20_Witness ==
    /\ lastError = "TEMP_INVALID"
    /\ currentTemperature = 30 * Scale
    /\ lastCall = "other"


\* C21: getCurrentTemperature() is 25.0 with compensation disabled on a
\* fresh instance, lies in [0, 50] in every state, and changes only through
\* a setTemperature call with a value inside [0, 50]; the enable flag changes
\* only through enableTemperatureCompensation
C21_TemperatureState ==
    /\ currentTemperature = 25 * Scale
    /\ ~temperatureCompensationEnabled
    /\ [](currentTemperature >= 0 /\ currentTemperature <= 50 * Scale)
    /\ [][/\ currentTemperature' # currentTemperature
             => \E t \in Temperatures :
                   /\ SetTemperature(t)
                   /\ t >= 0
                   /\ t <= 50 * Scale
                   /\ currentTemperature' = t
          /\ temperatureCompensationEnabled' # temperatureCompensationEnabled
             => \E e \in BOOLEAN : EnableTemperatureCompensation(e)]_vars

\* during a cycle the temperature has been set to 30 degrees C and the
\* compensation enabled
C21_Witness ==
    /\ currentTemperature = 30 * Scale
    /\ temperatureCompensationEnabled
    /\ state = "COLLECTING"
    /\ lastCall = "other"


\* C22: when PROCESSING runs with no valid sample (every stored sample is a
\* finite product, so this is the cycle with no sample to average), the
\* cycle completes: getLastReading() is 0.0, getLastError() is left as it
\* was (no range error is raised), isReadingComplete() is true and the
\* state is IDLE
C22_NoValidSample ==
    [][(UpdateStep /\ state = "PROCESSING" /\ config.samples = 0)
       => /\ lastReading' = 0
          /\ lastError' = lastError
          /\ lastError' \notin {"PH_LOW", "PH_HIGH", "ORP_LOW", "ORP_HIGH"}
          /\ readingComplete'
          /\ state' = "IDLE"]_vars

\* a cycle of no samples has completed on an instance that had measured
\* before
C22_Witness ==
    /\ lastCall = "updateReading"
    /\ preState = "PROCESSING"
    /\ config.samples = 0
    /\ ~conv.ran
    /\ ph_cal = PhRecord
    /\ lastReading = 0
    /\ readingComplete
    /\ state = "IDLE"


\* calibratePHXReading has returned
CalReturned == calib.pc = "done"

\* C23 as stated: when calibratePHXReading returns, the two cycle outputs
\* whose mean it returns differ from each other by less than 0.5, and the
\* returned value is exactly their mean
C23_OutputsWithinThreshold ==
    CalReturned =>
        /\ Abs(calib.firstReading - calib.secondReading) < STABILITY_THRESHOLD
        /\ Abs(2 * calib.result - (calib.firstReading + calib.secondReading)) <= 1

\* C23 as the code has it: when calibratePHXReading returns, each of the two
\* cycle outputs whose mean it returns differs from that mean by less than
\* 0.5, so that they differ from each other by less than 1.0, and the
\* returned value is exactly their mean
C23_OutputsNearMean ==
    CalReturned =>
        /\ Abs((calib.firstReading + calib.secondReading) - 2 * calib.firstReading) < 2 * STABILITY_THRESHOLD
        /\ Abs((calib.firstReading + calib.secondReading) - 2 * calib.secondReading) < 2 * STABILITY_THRESHOLD
        /\ Abs(calib.firstReading - calib.secondReading) < 2 * STABILITY_THRESHOLD
        /\ Abs(2 * calib.result - (calib.firstReading + calib.secondReading)) <= 1

C23_Witness ==
    /\ CalReturned
    /\ Abs(calib.firstReading - calib.secondReading) >= STABILITY_THRESHOLD
    /\ calib.firstReading # calib.secondReading
    /\ calib.attempts = 0

\* a conversion that ends a cycle started by calibratePHXReading
CalConvStep ==
    /\ ConvStep
    /\ calib.pc \in {"poll1", "poll2"}
    /\ config = CalConfig(calib.type)

\* C24: a cycle run by calibratePHXReading yields the averaged probe voltage
\* in millivolts, as on an uncalibrated instance, whatever calibration record
\* is stored for that kind
C24_ReturnsRawMilliVolts ==
    [][CalConvStep => lastReading' = conv'.mV]_vars

\* C25: a cycle run by calibratePHXReading yields the value it yields with
\* compensation disabled, even when compensation is enabled with a
\* temperature other than 25
C25_NoCompensation ==
    [][(CalConvStep /\ conv'.calibrated)
       => lastReading' = RangeCheck(config.type, conv'.rawValue, lastError).value]_vars

\* C26: calibratePHXReading returns exactly when the pair of cycle outputs
\* it has just read passes the stability test and starts over otherwise,
\* and with a constant ADC signal it returns after exactly two cycles with
\* the machine in IDLE
C26_ReturnsIffStable ==
    /\ []((CalReturned /\ Cardinality(calib.signal) <= 1)
          => (calib.cycles = 2 /\ state = "IDLE"))
    /\ [][(calib.pc = "poll2" /\ calib'.pc # "poll2")
          => /\ calib'.pc \in {"done", "start1"}
             /\ calib'.pc = "done"
                <=> ~Unstable(calib'.firstReading, calib'.secondReading)]_vars

\* C27: with an averaging depth greater than 1 each completed cycle writes
\* its output into the rolling-average ring, at the position of the oldest
\* entry, and the ring never holds more than clamp(avg_buffer, 1, 10)
\* entries
C27_RingHoldsOutputs ==
    /\ [](lastReadings.alloc
          => Len(lastReadings.data) <= constrain(config.avg_buffer, 1, MAX_AVG_BUFFER))
    /\ [][(UpdateStep /\ state = "PROCESSING" /\ avgBufferSize > 1)
          => /\ lastReadings'.data[readingIndex + 1] = lastReading'
             /\ readingIndex' = (readingIndex + 1) % avgBufferSize]_vars

\* C29: the calibration records change only through calibratePHX, which
\* replaces the pH record alone for "ph", the ORP record alone for "rx" and
\* neither for any other type; every other call, calibratePHXReading
\* included, leaves both records unchanged
C29_CalibrationFrame ==
    [][/\ (ph_cal' # ph_cal \/ orp_cal' # orp_cal)
          => \E c \in CalCalls : CalibratePHX(c[1], c[2])
       /\ \A c \in CalCalls :
            CalibratePHX(c[1], c[2])
            => /\ ph_cal' = IF c[1] = "ph" THEN c[2] ELSE ph_cal
               /\ orp_cal' = IF c[1] = "rx" THEN c[2] ELSE orp_cal
       /\ calib.pc # "none" => (ph_cal' = ph_cal /\ orp_cal' = orp_cal)]_vars

C29_Witness ==
    /\ CalReturned
    /\ calib.cycles = 2
    /\ ph_cal = DefaultPhCal
    /\ orp_cal = OrpRecord
    /\ lastError = "NONE"

\* C30: readADC_SingleEnded(channel) with channel > 3 returns 0, issues no
\* bus write or read, and alters no member of the instance
C30_ChannelOutOfRange ==
    [][(lastCall' = "readADC_SingleEnded" /\ adc'.channel > 3)
       => /\ adc'.called
          /\ adc'.value = 0
          /\ busOps' = 0
          /\ UNCHANGED device
          /\ UNCHANGED clock]_vars

C30_Witness ==
    /\ lastCall = "readADC_SingleEnded"
    /\ adc.called
    /\ adc.channel = 4
    /\ adc.value = 0
    /\ state = "COLLECTING"
    /\ currentSample = 1

\* what the observables of an instance depend on: its members, but for the
\* rolling-average ring, which nothing reads, and the cells of the sample
\* buffer its cycle has not written yet
Visible(p) ==
    [p EXCEPT !.lastReadings = NullPtr,
              !.readings.data = [i \in DOMAIN @ |-> IF i <= p.currentSample
                                                    THEN @[i]
                                                    ELSE Indeterminate]]

SampleStep == UpdateStep /\ state = "COLLECTING" /\ written' = {currentSample}

\* C31: the sample stored is rawCode * range / 2048, where the range is
\* 6.144, 4.096, 2.048, 1.024, 0.512 or 0.256 V for the gain codes 0x0000,
\* 0x0200, 0x0400, 0x0600, 0x0800 and 0x0A00, and 6.144 V for every other
\* value of the gain
C31_FullScaleRange ==
    [][SampleStep
       => LET range == CASE gain = 0        -> 6144000
                         [] gain = 2 * 2^8  -> 4096000
                         [] gain = 4 * 2^8  -> 2048000
                         [] gain = 6 * 2^8  -> 1024000
                         [] gain = 8 * 2^8  -> 512000
                         [] gain = 10 * 2^8 -> 256000
                         [] OTHER           -> 6144000
          IN  \E reg \in wire :
                readings'.data[currentSample + 1] = MulDiv(range, reg \div 16, 2048)]_vars

C31_Witness ==
    /\ lastCall = "updateReading"
    /\ preState = "COLLECTING"
    /\ gain = 3 * 2^10
    /\ currentSample = 1
    /\ readings.alloc
    /\ readings.data[1] = 6141000

\* C32: for every content of the conversion register the code read from
\* channel 0 is in 0..2047, so that the magnitude of the stored sample never
\* exceeds the configured full-scale range
C32_SampleWithinRange ==
    [][SampleStep
       => /\ \E raw \in 0..2047 :
               readings'.data[currentSample + 1] = SampleVolts(raw, gain)
          /\ Abs(readings'.data[currentSample + 1]) <= voltageRange(gain)]_vars

C34_CompleteImpliesIdle ==
    /\ [](readingComplete => state = "IDLE")
    /\ [][/\ (readingComplete' /\ ~readingComplete)
             => (UpdateStep /\ state = "PROCESSING" /\ state' = "IDLE")
          /\ (StartStep /\ state = "IDLE") => ~readingComplete'
          /\ CancelStep => ~readingComplete']_vars

C34_Witness ==
    /\ lastCall = "cancelReading"
    /\ preState = "IDLE"
    /\ ~readingComplete
    /\ lastReading = 13 * Scale
    /\ state = "IDLE"

\* C35: in a cycle of N >= 1 samples, COLLECTING implies 0 <= sample count
\* < N with the buffer allocated, and PROCESSING implies sample count = N
\* with the buffer allocated and all its N entries written in this cycle;
\* the entries beyond the count are those of the fresh allocation
C35_CountAndBuffer ==
    (config.samples >= 1 /\ state # "IDLE")
    => /\ readings.alloc
       /\ Len(readings.data) = config.samples
       /\ state = "COLLECTING" => (0 <= currentSample /\ currentSample < config.samples)
       /\ state = "PROCESSING" => currentSample = config.samples
       /\ \A i \in 1..config.samples :
            (readings.data[i] # Indeterminate) <=> (i <= currentSample)

C35_Witness ==
    /\ state = "PROCESSING"
    /\ config.samples = MaxSamples
    /\ currentSample = MaxSamples
    /\ lastCall = "updateReading"
    /\ preState = "COLLECTING"
    /\ lastReading = 13 * Scale
    /\ \A i \in 1..MaxSamples : readings.data[i] # Indeterminate

\* C36: getLastReading() changes only on the PROCESSING -> IDLE step of
\* updateReading; every other call leaves it unchanged, so that after a
\* cancelled cycle it is still the value of the last completed cycle
C36_LastReadingFrame ==
    [][lastReading' # lastReading
       => (UpdateStep /\ state = "PROCESSING" /\ state' = "IDLE")]_vars

C36_Witness ==
    /\ lastCall = "cancelReading"
    /\ preState = "COLLECTING"
    /\ state = "IDLE"
    /\ ~readingComplete
    /\ updates = UpdatesCap
    /\ lastReading = 10 * Scale

\* C37: a setTemperature call with a valid value changes getLastError() only
\* when it was TEMP_INVALID; a range error reported by a completed cycle is
\* preserved by it
C37_ValidTemperatureKeepsRangeError ==
    [][\A t \in Temperatures :
         (SetTemperature(t) /\ t >= 0 /\ t <= 50 * Scale)
         => /\ lastError \in {"PH_LOW", "PH_HIGH", "ORP_LOW", "ORP_HIGH"}
               => lastError' = lastError
            /\ lastError' # lastError => lastError = "TEMP_INVALID"]_vars

C37_Witness ==
    /\ lastCall = "other"
    /\ readingComplete
    /\ lastError = "ORP_HIGH"
    /\ currentTemperature = 30 * Scale
    /\ lastReading = 1000 * Scale

\* C38: a pH cycle is converted with the temperature and the enable flag in
\* effect when updateReading runs in PROCESSING; setTemperature and
\* enableTemperatureCompensation take effect in every state of a cycle and
\* never change the state, the sample count or the collected samples
C38_TemperatureAtProcessing ==
    [][/\ (ConvStep /\ config.type = "ph" /\ conv'.calibrated)
          => conv'.unclamped =
               IF temperatureCompensationEnabled
               THEN applyTemperatureCompensation(conv'.rawValue, currentTemperature)
               ELSE conv'.rawValue
       /\ \A t \in Temperatures :
            SetTemperature(t)
            => /\ UNCHANGED <<state, currentSample, readings>>
               /\ (t >= 0 /\ t <= 50 * Scale) => currentTemperature' = t
       /\ \A e \in BOOLEAN :
            EnableTemperatureCompensation(e)
            => /\ UNCHANGED <<state, currentSample, readings>>
               /\ temperatureCompensationEnabled' = e]_vars

C38_Witness ==
    /\ lastCall = "other"
    /\ preState = "PROCESSING"
    /\ state = "PROCESSING"
    /\ config.type = "ph"
    /\ currentSample = config.samples
    /\ ph_cal = PhRecord
    /\ temperatureCompensationEnabled
    /\ currentTemperature = 30 * Scale

\* C39: in a cycle with delay_ms >= 0 a sample that is not the first of its
\* cycle is stored at least delay_ms milliseconds of elapsed time after the
\* one before it, also when the millisecond counter has wrapped in between
C39_SamplesSpacedByDelay ==
    [][(SampleStep /\ currentSample >= 1 /\ config.delay_ms >= 0)
       => \E c \in StartClocks, last \in 0..ticks :
            /\ now = (c + ticks) % ClockMod
            /\ lastSampleTime = (c + last) % ClockMod
            /\ ticks - last >= config.delay_ms]_vars

C39_Witness ==
    /\ lastCall = "updateReading"
    /\ preState = "COLLECTING"
    /\ written = {1}
    /\ config.delay_ms = 2
    /\ currentSample = 2
    /\ now < ticks
    /\ lastSampleTime = now

=============================================================================
